---- MODULE Spec2Model ----
(***************************************************************************)
(* State-machine model of the StyleSheet wrapper of                        *)
(* packages/react-native-css-interop/src/runtime/native/stylesheet.ts:     *)
(* the registries written by register / create / __reset, the metadata     *)
(* tagger tagStyles, the subscription set with its in-call broadcast, and  *)
(* the variable lookup useVariables.                                       *)
(*                                                                         *)
(* JavaScript objects with optional fields are functions whose DOMAIN is   *)
(* the set of fields that are present; object identity is an explicit id.  *)
(***************************************************************************)
EXTENDS Integers, Sequences, FiniteSets, TLC

VARIABLES
    globalStyles,          \* globals: Map name -> tagged StyleProp
    animationMap,          \* globals: Map name -> keyframes definition
    warnings,              \* globals: Map name -> warnings of a descriptor
    warned,                \* globals: Set used to de-duplicate warnings
    env,                   \* globals: rem, vw, vh, colorScheme trackers
    styleMetaMap,          \* globals: identity-keyed map value -> StyleMeta
    arrays,                \* heap of the arrays allocated by styles.map(...)
    rootVariables,         \* module-level let, line 206
    rootDarkVariables,     \* module-level let, line 207
    defaultVariables,      \* module-level let, line 208
    defaultDarkVariables,  \* module-level let, line 209
    subscriptions,         \* the Set of callbacks, as its ordered entry list
    handles,               \* the unsubscribe closures returned so far
    pc,                    \* "idle", or "broadcast" inside a for..of loop
    cursor,                \* position of the running for..of iterator
    production,            \* process.env.NODE_ENV === "production"
    last,                  \* history: the last call made and what it was given
    invoked,               \* history: calls of each callback in this broadcast
    bcStart,               \* history: subscribers when this broadcast started
    bcRemoved,             \* history: callbacks deleted during this broadcast
    bcAfterReset,          \* history: this broadcast followed a __reset directly
    gone                   \* history: callbacks unsubscribed and not subscribed since

scopeVars == <<rootVariables, rootDarkVariables, defaultVariables, defaultDarkVariables>>
tagVars   == <<globalStyles, animationMap, warnings, styleMetaMap, arrays>>
subVars   == <<subscriptions, handles>>
loopVars  == <<pc, cursor, invoked, bcStart, bcRemoved, bcAfterReset>>
vars      == <<scopeVars, tagVars, subVars, loopVars, warned, env, production, last, gone>>

----------------------------------------------------------------------------
(* Plain objects used as maps: a function whose domain is the key set.     *)

EmptyObject == [k \in {} |-> 0]

\* { ...x, ...y }: the keys of both, y winning where both have the key
Spread(x, y) ==
    [k \in (DOMAIN x) \cup (DOMAIN y) |-> IF k \in DOMAIN y THEN y[k] ELSE x[k]]

\* ...options.f where options.f may be undefined (spreading undefined adds nothing)
Field(options, f) == IF f \in DOMAIN options THEN options[f] ELSE EmptyObject

\* map.clear(), where nothing is cleared
MapClearNothing(m) == m

\* map.clear()
MapClear(m) == EmptyObject

\* map.set(k, v) on a Map kept as a function
MapSetAlone(m, k, v) == [x \in {k} |-> v]

\* map.set(k, v)
MapSet(m, k, v) ==
    [x \in (DOMAIN m) \cup {k} |-> IF x = k THEN v ELSE m[x]]

----------------------------------------------------------------------------
(* register, lines 73-92: the four variable scopes.  An object is truthy   *)
(* even when it has no keys, so `if (options.f)` tests presence only.      *)

\* a default-light scope that keeps its earlier keys and merges the new in
DefaultMergedIntoCurrent(options, current) ==
    IF "defaultVariables" \in DOMAIN options
    THEN Spread(current, options["defaultVariables"])
    ELSE current

\* line 73
RegisterDefaultVariables(options, current) ==
    IF "defaultVariables" \in DOMAIN options
    THEN options["defaultVariables"]
    ELSE current

\* as lines 75-78 with the two spreads in the other order
DefaultDarkLightWins(options, current) ==
    IF "defaultDarkVariables" \in DOMAIN options
    THEN Spread(options["defaultDarkVariables"], Field(options, "defaultVariables"))
    ELSE current

RegisterDefaultDarkVariables(options, current) ==
    IF "defaultDarkVariables" \in DOMAIN options
    THEN Spread(Field(options, "defaultVariables"), options["defaultDarkVariables"])
    ELSE current

\* as lines 81-84 with the two spreads in the other order
RootIncomingWins(options, current, defaults) ==
    IF "rootVariables" \in DOMAIN options
    THEN Spread(defaults, options["rootVariables"])
    ELSE current

\* defaults is the module-level defaultVariables as line 73 has just left it
RegisterRootVariables(options, current, defaults) ==
    IF "rootVariables" \in DOMAIN options
    THEN Spread(options["rootVariables"], defaults)
    ELSE current

\* as lines 87-91 without line 88
RootDarkWithoutRoot(options, current, defaultsDark) ==
    IF "rootDarkVariables" \in DOMAIN options
    THEN Spread(options["rootDarkVariables"], defaultsDark)
    ELSE current

\* defaultsDark is the module-level defaultDarkVariables as lines 74-79 left it
RegisterRootDarkVariables(options, current, defaultsDark) ==
    IF "rootDarkVariables" \in DOMAIN options
    THEN Spread(Spread(Field(options, "rootVariables"), options["rootDarkVariables"]),
                defaultsDark)
    ELSE current

\* useVariables, lines 211-230.  context is what useContext(VariableContext)
\* returns: <<"null">> with no provider above, or <<"provided", scope>>;
\* scheme is what Appearance.getColorScheme() returns.

\* as useVariables, with the inherited scope spread last
useVariablesInheritedWins(context, scheme) ==
    IF context[1] = "null"
    THEN IF scheme = "light" THEN rootVariables ELSE rootDarkVariables
    ELSE IF scheme = "light"
         THEN Spread(defaultVariables, context[2])
         ELSE Spread(defaultDarkVariables, context[2])

useVariables(context, scheme) ==
    IF context[1] = "null"
    THEN IF scheme = "light" THEN rootVariables ELSE rootDarkVariables
    ELSE IF scheme = "light"
         THEN Spread(context[2], defaultVariables)
         ELSE Spread(context[2], defaultDarkVariables)

----------------------------------------------------------------------------
(* tagStyles, lines 113-204.                                               *)
(*                                                                         *)
(* An argument of tagStyles is <<"array", items>> (Array.isArray holds) or *)
(* <<"single", descriptor>>.  A descriptor is a function from the fields   *)
(* it carries to their values; "style" is an object reference.  Object     *)
(* references are <<"style", i>> for the style payloads the caller owns    *)
(* and <<"array", i>> for the i-th array that styles.map has allocated.    *)

IsArray(styles) == styles[1] = "array"

StyleRef(i) == <<"style", i>>
ArrayRef(i) == <<"array", i>>
Undefined   == <<"undefined", 0>>

\* obj.k = v
Assign(obj, k, v) ==
    [x \in (DOMAIN obj) \cup {k} |-> IF x = k THEN v ELSE obj[x]]

\* s.style, line 121: an array has no property named style
StyleOf(s) == IF IsArray(s) THEN Undefined ELSE s[2]["style"]

\* styleMetaMap.has(key)
MetaHas(meta, key) == key \in DOMAIN meta

\* a flag field such as isDynamic or requiresLayout is truthy
Flag(d, f) == f \in DOMAIN d /\ d[f] = TRUE

\* as AnimationRequiresLayout, looking up the first reference only
AnimationFirstNameOnly(animations, am) ==
    /\ "name" \in DOMAIN animations
    /\ Len(animations["name"]) > 0
    /\ LET nameObj == animations["name"][1]
           name    == IF nameObj["type"] = "none" THEN "none" ELSE nameObj["value"]
       IN  /\ name \in DOMAIN am
           /\ "requiresLayout" \in DOMAIN am[name]
           /\ am[name]["requiresLayout"] = TRUE

\* lines 157-160: styles.animations.name?.some(...)
AnimationRequiresLayout(animations, am) ==
    /\ "name" \in DOMAIN animations
    /\ \E i \in 1..Len(animations["name"]) :
          LET nameObj == animations["name"][i]
              name    == IF nameObj["type"] = "none" THEN "none" ELSE nameObj["value"]
          IN  /\ name \in DOMAIN am
              /\ "requiresLayout" \in DOMAIN am[name]
              /\ am[name]["requiresLayout"] = TRUE

\* the container copied as it was given, its type not defaulted
ContainerAsGiven(container) == container

\* lines 167-172: container.type ?? "normal"
ContainerMeta(container) ==
    [names |-> container["names"],
     type  |-> IF "type" \in DOMAIN container THEN container["type"] ELSE "normal"]

\* as HasMeta, with line 143 testing only that media is an array
HasMetaAnyMedia(d) ==
    \/ Flag(d, "isDynamic")
    \/ "variables" \in DOMAIN d
    \/ "media" \in DOMAIN d
    \/ "pseudoClasses" \in DOMAIN d
    \/ "animations" \in DOMAIN d
    \/ "container" \in DOMAIN d
    \/ "containerQuery" \in DOMAIN d
    \/ "transition" \in DOMAIN d
    \/ Flag(d, "requiresLayout")
    \/ "prop" \in DOMAIN d

\* lines 131-192: whether hasMeta ends up true
HasMeta(d) ==
    \/ Flag(d, "isDynamic")
    \/ "variables" \in DOMAIN d
    \/ ("media" \in DOMAIN d /\ Len(d["media"]) > 0)
    \/ "pseudoClasses" \in DOMAIN d
    \/ "animations" \in DOMAIN d
    \/ "container" \in DOMAIN d
    \/ "containerQuery" \in DOMAIN d
    \/ "transition" \in DOMAIN d
    \/ Flag(d, "requiresLayout")
    \/ "prop" \in DOMAIN d

\* lines 132-192: the StyleMeta record, assignment by assignment
BuildMeta(d, am) ==
    LET m0 == EmptyObject
        m1 == IF "variables" \in DOMAIN d
              THEN Assign(m0, "variables", d["variables"]) ELSE m0
        m2 == IF "media" \in DOMAIN d /\ Len(d["media"]) > 0
              THEN Assign(m1, "media", d["media"]) ELSE m1
        m3 == IF "pseudoClasses" \in DOMAIN d
              THEN Assign(m2, "pseudoClasses", d["pseudoClasses"]) ELSE m2
        m4 == IF "animations" \in DOMAIN d
              THEN Assign(m3, "animations", d["animations"]) ELSE m3
        m5 == IF "animations" \in DOMAIN d /\ AnimationRequiresLayout(d["animations"], am)
              THEN Assign(m4, "requiresLayout", TRUE) ELSE m4
        m6 == IF "container" \in DOMAIN d
              THEN Assign(m5, "container", ContainerMeta(d["container"])) ELSE m5
        m7 == IF "containerQuery" \in DOMAIN d
              THEN Assign(m6, "containerQuery", d["containerQuery"]) ELSE m6
        m8 == IF "transition" \in DOMAIN d
              THEN Assign(m7, "transition", d["transition"]) ELSE m7
        m9 == IF Flag(d, "requiresLayout")
              THEN Assign(m8, "requiresLayout", d["requiresLayout"]) ELSE m8
    IN  IF "prop" \in DOMAIN d THEN Assign(m9, "prop", d["prop"]) ELSE m9

\* warnings stored whatever the build
TagWarningsAlways(name, d, warn, prod) ==
    IF "warnings" \in DOMAIN d
    THEN MapSet(warn, name, d["warnings"])
    ELSE warn

\* lines 194-196
TagWarnings(name, d, warn, prod) ==
    IF ~prod /\ "warnings" \in DOMAIN d
    THEN MapSet(warn, name, d["warnings"])
    ELSE warn

\* lines 130-203: a single descriptor.  st = [meta, warn, heap, am, prod]
TagSingle(name, d, st) ==
    [value |-> d["style"],
     st    |-> [st EXCEPT
                  !.warn = TagWarnings(name, d, st.warn, st.prod),
                  !.meta = IF HasMeta(d)
                           THEN MapSet(st.meta, d["style"], BuildMeta(d, st.am))
                           ELSE st.meta]]

\* line 121: didTag ||= styleMetaMap.has(s.style), after s has been tagged
DidTag(didTag, s, meta) == didTag \/ MetaHas(meta, StyleOf(s))

\* lines 125-129: the new array taggedStyles, and its sentinel when didTag
TagArrayResult(tagged, didTag, st) ==
    LET ref == ArrayRef(Len(st.heap) + 1)
    IN  [value |-> ref,
         st    |-> [st EXCEPT
                      !.heap = Append(st.heap, tagged),
                      !.meta = IF didTag
                               THEN MapSet(st.meta, ref, EmptyObject)
                               ELSE st.meta]]

RECURSIVE tagStyles(_, _, _)
RECURSIVE TagElements(_, _, _, _)

\* lines 119-123: styles.map over the elements from index i on;
\* acc = [st, didTag, tagged]
TagElements(name, items, i, acc) ==
    IF i > Len(items) THEN acc
    ELSE LET r == tagStyles(name, items[i], acc.st)
         IN  TagElements(name, items, i + 1,
                 [st     |-> r.st,
                  didTag |-> DidTag(acc.didTag, items[i], r.st.meta),
                  tagged |-> Append(acc.tagged, r.value)])

tagStyles(name, styles, st) ==
    IF IsArray(styles)
    THEN LET acc == TagElements(name, styles[2], 1,
                        [st |-> st, didTag |-> FALSE, tagged |-> <<>>])
         IN  TagArrayResult(acc.tagged, acc.didTag, acc.st)
    ELSE TagSingle(name, styles[2], st)

----------------------------------------------------------------------------
(* The subscriptions Set, line 26.  A JavaScript Set keeps its entries in  *)
(* insertion order; delete leaves a hole that a running iterator skips and *)
(* add appends, so a running for..of also reaches entries added after it   *)
(* started.  Holes are dropped whenever no iterator is running.            *)

Hole == "hole"

Range(seq) == {seq[i] : i \in DOMAIN seq}

\* the callbacks that are members of the Set
Members(entries) == Range(entries) \ {Hole}

\* an add that appends an entry for a callback that is already a member
SetAddDuplicate(entries, cb) == Append(entries, cb)

\* subscriptions.add(subscription), line 41
SetAdd(entries, cb) ==
    IF cb \in Members(entries) THEN entries ELSE Append(entries, cb)

\* a delete that removes nothing
SetDeleteNothing(entries, cb) == entries

\* subscriptions.delete(subscription), line 43
SetDelete(entries, cb) ==
    [i \in DOMAIN entries |-> IF entries[i] = cb THEN Hole ELSE entries[i]]

Compact(entries) == SelectSeq(entries, LAMBDA e : e # Hole)

\* an iterator that stops after the entry it is given first
NextEntryOnce(entries, from) ==
    IF from = 0 /\ \E i \in DOMAIN entries : entries[i] # Hole
    THEN CHOOSE i \in DOMAIN entries :
            /\ entries[i] # Hole
            /\ \A j \in DOMAIN entries : entries[j] # Hole => i <= j
    ELSE 0

\* the iterator's next entry after position from; 0 when it is exhausted
NextEntry(entries, from) ==
    IF \E i \in DOMAIN entries : i > from /\ entries[i] # Hole
    THEN CHOOSE i \in DOMAIN entries :
            /\ i > from /\ entries[i] # Hole
            /\ \A j \in DOMAIN entries : (j > from /\ entries[j] # Hole) => i <= j
    ELSE 0

\* a closure that deletes whatever was added last instead of its own callback
UnsubscribeNewest(entries, h) ==
    IF Members(entries) = {} THEN entries
    ELSE LET newest == CHOOSE i \in DOMAIN entries :
                          /\ entries[i] # Hole
                          /\ \A j \in DOMAIN entries : entries[j] # Hole => j <= i
         IN  [entries EXCEPT ![newest] = Hole]

\* a closure that empties the Set
UnsubscribeEveryone(entries, h) == [i \in DOMAIN entries |-> Hole]

\* the closure returned by __subscribe, lines 42-44, run on the entry list
UnsubscribeEntries(entries, h) == SetDelete(entries, h.cb)

NoCalls(callbacks) == [c \in callbacks |-> 0]

----------------------------------------------------------------------------
(* register and create, lines 60-110, up to the broadcast.  keyframes,     *)
(* declarations and the argument of create are objects read through        *)
(* Object.entries: a sequence of <<name, value>> with distinct names.      *)

RECURSIVE SetKeyframes(_, _, _)
\* lines 62-64
SetKeyframes(entries, i, am) ==
    IF i > Len(entries) THEN am
    ELSE SetKeyframes(entries, i + 1, MapSet(am, entries[i][1], entries[i][2]))

\* lines 61-65
RegisterKeyframes(options, am) ==
    IF "keyframes" \in DOMAIN options
    THEN SetKeyframes(options["keyframes"], 1, am)
    ELSE am

RECURSIVE TagEntries(_, _, _)
\* lines 68-70 and 101-103: tag each entry and store the result under its name;
\* acc = [named, st]
TagEntries(entries, i, acc) ==
    IF i > Len(entries) THEN acc
    ELSE LET r == tagStyles(entries[i][1], entries[i][2], acc.st)
         IN  TagEntries(entries, i + 1,
                 [named |-> MapSet(acc.named, entries[i][1], r.value),
                  st    |-> r.st])

\* lines 67-71: globalStyles.set(name, tagStyles(name, styles))
RegisterDeclarations(options, gs, st) ==
    IF "declarations" \in DOMAIN options
    THEN TagEntries(options["declarations"], 1, [named |-> gs, st |-> st])
    ELSE [named |-> gs, st |-> st]

\* as CreateStyles, collecting into the named styles as register does
CreateStylesIntoNamed(styles, st) ==
    TagEntries(styles, 1, [named |-> globalStyles, st |-> st])

\* lines 99-103: namedStyles starts as {} and is returned
CreateStyles(styles, st) ==
    TagEntries(styles, 1, [named |-> EmptyObject, st |-> st])

\* the registries tagStyles reads and writes, with the animation map to read
TagState(am) ==
    [meta |-> styleMetaMap, warn |-> warnings, heap |-> arrays,
     am |-> am, prod |-> production]

----------------------------------------------------------------------------
(* Bounds and the inputs the operations are given.                         *)

MaxHandles == 3     \* unsubscribe closures created in one run
MaxArrays  == 2     \* arrays allocated by tagStyles in one run

Callbacks == {"c1", "c2"}

ScopeA1   == [k \in {"a"} |-> 1]
ScopeA2B1 == [k \in {"a", "b"} |-> IF k = "a" THEN 2 ELSE 1]

InputScopes == {EmptyObject, ScopeA1, ScopeA2B1}

VariableFields ==
    {"defaultVariables", "defaultDarkVariables", "rootVariables", "rootDarkVariables"}

\* every choice of which variable fields are supplied, and with what
VariableOptions == UNION {[F -> InputScopes] : F \in SUBSET VariableFields}

\* a descriptor: a style payload and the extra fields given
Descriptor(i, extra) == <<"single", Assign(extra, "style", StyleRef(i))>>

Static    == EmptyObject
Dynamic   == [isDynamic |-> TRUE]
NoMedia   == [media |-> <<>>]
WithVars  == [variables |-> "vars"]
SpinKeyframes == [frames |-> "spin-frames", requiresLayout |-> TRUE]
Spinning  == [animations |-> [name |-> <<[type |-> "custom", value |-> "spin"]>>]]
Warned    == [warnings |-> "w1"]

\* further descriptor fields, and keyframes to go with the animations
WithMedia       == [media |-> <<"m1">>]
Hovered         == [pseudoClasses |-> "hover"]
FlatKeyframes   == [frames |-> "flat-frames"]
NoneAnimation   == [animations |-> [name |-> <<[type |-> "none"]>>]]
Fading          == [animations |-> [name |-> <<[type |-> "custom", value |-> "fade"]>>]]
FadingSpinning  ==
    [animations |-> [name |-> <<[type |-> "custom", value |-> "fade"],
                                [type |-> "custom", value |-> "spin"]>>]]
Unnamed         == [animations |-> [duration |-> "1s"]]
Contained       == [container |-> [names |-> <<"c">>]]
ContainedInline == [container |-> [names |-> <<"c">>, type |-> "inline-size"]]
Queried         == [containerQuery |-> "q"]
Moving          == [transition |-> "t"]
NeedsLayout     == [requiresLayout |-> TRUE]
NoLayout        == [requiresLayout |-> FALSE]
Propped         == [prop |-> "p"]
Warned2         == [warnings |-> "w2"]

----------------------------------------------------------------------------
(* The operations.                                                         *)

Init ==
    /\ globalStyles = EmptyObject
    /\ animationMap = EmptyObject
    /\ warnings = EmptyObject
    /\ warned = {}
    /\ env = [rem |-> "default", vw |-> "Dimensions", vh |-> "Dimensions",
              colorScheme |-> "Appearance"]
    /\ styleMetaMap = EmptyObject
    /\ arrays = <<>>
    /\ rootVariables = EmptyObject
    /\ rootDarkVariables = EmptyObject
    /\ defaultVariables = EmptyObject
    /\ defaultDarkVariables = EmptyObject
    /\ subscriptions = <<>>
    /\ handles = <<>>
    /\ pc = "idle"
    /\ cursor = 0
    /\ production \in BOOLEAN
    /\ last = [op |-> "init"]
    /\ invoked = NoCalls(Callbacks)
    /\ bcStart = {}
    /\ bcRemoved = {}
    /\ bcAfterReset = FALSE
    /\ gone = {}

\* no broadcast is running and none has been recorded
NoBroadcast ==
    /\ pc' = "idle"
    /\ cursor' = 0
    /\ invoked' = NoCalls(Callbacks)
    /\ bcStart' = {}
    /\ bcRemoved' = {}
    /\ bcAfterReset' = FALSE

\* lines 94 and 105: the for..of loop is entered; with no subscriber it is over
StartBroadcast ==
    /\ cursor' = NextEntry(subscriptions, 0)
    /\ pc' = IF NextEntry(subscriptions, 0) = 0 THEN "idle" ELSE "broadcast"
    /\ invoked' = NoCalls(Callbacks)
    /\ bcStart' = Members(subscriptions)
    /\ bcRemoved' = {}
    /\ bcAfterReset' = (last.op = "reset" /\ NextEntry(subscriptions, 0) # 0)

\* __subscribe, lines 40-45, on [entries, handles]: the Set gains the callback
\* and a new closure over it is returned
SubscribeCall(state, cb) ==
    [entries |-> SetAdd(state.entries, cb),
     handles |-> Append(state.handles, [cb |-> cb, used |-> FALSE])]

\* a call of the closure of lines 42-44
UnsubscribeCall(state, h) ==
    [entries |-> UnsubscribeEntries(state.entries, state.handles[h]),
     handles |-> [state.handles EXCEPT ![h].used = TRUE]]

\* lines 40-45, called outside any broadcast
Subscribe(cb) ==
    /\ pc = "idle"
    /\ Len(handles) < MaxHandles
    /\ LET r == SubscribeCall([entries |-> subscriptions, handles |-> handles], cb)
       IN  /\ subscriptions' = r.entries
           /\ handles' = r.handles
    /\ gone' = gone \ {cb}
    /\ last' = [op |-> "subscribe", cb |-> cb]
    /\ NoBroadcast
    /\ UNCHANGED <<scopeVars, tagVars, warned, env, production>>

\* lines 42-44, called outside any broadcast
Unsubscribe(h) ==
    /\ pc = "idle"
    /\ h \in DOMAIN handles
    /\ LET r == UnsubscribeCall([entries |-> subscriptions, handles |-> handles], h)
       IN  /\ subscriptions' = Compact(r.entries)
           /\ handles' = r.handles
    /\ gone' = gone \cup {handles[h].cb}
    /\ last' = [op |-> "unsubscribe", handle |-> h, target |-> handles[h].cb,
                again |-> handles[h].used, before |-> Members(subscriptions)]
    /\ NoBroadcast
    /\ UNCHANGED <<scopeVars, tagVars, warned, env, production>>

\* a reset that also empties the subscription set
ResetClearingSubscriptions(config) ==
    /\ pc = "idle"
    /\ globalStyles' = MapClear(globalStyles)
    /\ animationMap' = MapClear(animationMap)
    /\ warnings' = MapClear(warnings)
    /\ warned' = {}
    /\ env' = [rem |-> "default", vw |-> "Dimensions", vh |-> "Dimensions",
               colorScheme |-> "Appearance"]
    /\ rootVariables' = EmptyObject
    /\ rootDarkVariables' = EmptyObject
    /\ defaultVariables' = EmptyObject
    /\ defaultDarkVariables' = EmptyObject
    /\ subscriptions' = <<>>
    /\ last' = [op |-> "reset", config |-> config]
    /\ NoBroadcast
    /\ UNCHANGED <<styleMetaMap, arrays, handles, production, gone>>

\* __reset, lines 46-59; config may carry dimensions and appearance
Reset(config) ==
    /\ pc = "idle"
    /\ globalStyles' = MapClear(globalStyles)
    /\ animationMap' = MapClear(animationMap)
    /\ warnings' = MapClear(warnings)
    /\ warned' = {}
    /\ env' = [rem |-> "default",
               vw  |-> IF "dimensions" \in DOMAIN config
                       THEN config["dimensions"] ELSE "Dimensions",
               vh  |-> IF "dimensions" \in DOMAIN config
                       THEN config["dimensions"] ELSE "Dimensions",
               colorScheme |-> IF "appearance" \in DOMAIN config
                               THEN config["appearance"] ELSE "Appearance"]
    /\ rootVariables' = EmptyObject
    /\ rootDarkVariables' = EmptyObject
    /\ defaultVariables' = EmptyObject
    /\ defaultDarkVariables' = EmptyObject
    /\ last' = [op |-> "reset", config |-> config]
    /\ NoBroadcast
    /\ UNCHANGED <<styleMetaMap, arrays, subVars, production, gone>>

\* register, lines 60-97, up to the first callback
Register(options) ==
    /\ pc = "idle"
    /\ LET am  == RegisterKeyframes(options, animationMap)
           r   == RegisterDeclarations(options, globalStyles, TagState(am))
           dv  == RegisterDefaultVariables(options, defaultVariables)
           ddv == RegisterDefaultDarkVariables(options, defaultDarkVariables)
       IN  /\ Len(r.st.heap) <= MaxArrays
           /\ animationMap' = am
           /\ globalStyles' = r.named
           /\ styleMetaMap' = r.st.meta
           /\ warnings' = r.st.warn
           /\ arrays' = r.st.heap
           /\ defaultVariables' = dv
           /\ defaultDarkVariables' = ddv
           /\ rootVariables' = RegisterRootVariables(options, rootVariables, dv)
           /\ rootDarkVariables' = RegisterRootDarkVariables(options, rootDarkVariables, ddv)
    /\ last' = [op |-> "register", options |-> options]
    /\ StartBroadcast
    /\ UNCHANGED <<subVars, warned, env, production, gone>>

\* create, lines 98-110, up to the first callback
Create(styles) ==
    /\ pc = "idle"
    /\ LET r == CreateStyles(styles, TagState(animationMap))
       IN  /\ Len(r.st.heap) <= MaxArrays
           /\ styleMetaMap' = r.st.meta
           /\ warnings' = r.st.warn
           /\ arrays' = r.st.heap
           /\ last' = [op |-> "create", styles |-> styles, namedStyles |-> r.named]
    /\ StartBroadcast
    /\ UNCHANGED <<globalStyles, animationMap, scopeVars, subVars, warned, env,
                   production, gone>>

\* what a callback does when it runs: nothing, a __subscribe, or a call of
\* an unsubscribe closure it holds
Effects ==
    {[kind |-> "none"]}
    \cup {[kind |-> "subscribe", cb |-> c] : c \in Callbacks}
    \cup {[kind |-> "unsubscribe", handle |-> h] : h \in DOMAIN handles}

CallbackEffect(effect, state) ==
    IF effect.kind = "subscribe" THEN SubscribeCall(state, effect.cb)
    ELSE IF effect.kind = "unsubscribe" THEN UnsubscribeCall(state, effect.handle)
    ELSE state

\* lines 94-96 and 105-107: one turn of the loop, subscription(), and the
\* iterator's step to the next entry; the call returns when there is none
Invoke(effect) ==
    /\ pc = "broadcast"
    /\ effect.kind = "subscribe" => Len(handles) < MaxHandles
    /\ LET cb   == subscriptions[cursor]
           r    == CallbackEffect(effect, [entries |-> subscriptions, handles |-> handles])
           next == NextEntry(r.entries, cursor)
           cut  == IF effect.kind = "unsubscribe"
                   THEN {handles[effect.handle].cb} ELSE {}
       IN  /\ invoked' = [invoked EXCEPT ![cb] = @ + 1]
           /\ handles' = r.handles
           /\ subscriptions' = IF next = 0 THEN Compact(r.entries) ELSE r.entries
           /\ cursor' = next
           /\ pc' = IF next = 0 THEN "idle" ELSE "broadcast"
           /\ bcRemoved' = bcRemoved \cup (cut \cap Members(subscriptions))
           /\ gone' = IF effect.kind = "subscribe" THEN gone \ {effect.cb}
                      ELSE gone \cup cut
           /\ last' = [op |-> "invoke", cb |-> cb, kind |-> effect.kind,
                       handle |-> IF effect.kind = "unsubscribe" THEN effect.handle ELSE 0,
                       target |-> IF effect.kind = "unsubscribe"
                                  THEN handles[effect.handle].cb ELSE "",
                       again  |-> IF effect.kind = "unsubscribe"
                                  THEN handles[effect.handle].used ELSE FALSE,
                       before |-> Members(subscriptions)]
    /\ UNCHANGED <<scopeVars, tagVars, bcStart, bcAfterReset, warned, env, production>>

\* useVariables, lines 211-230, called by a component as it renders
UseVariables(context, scheme) ==
    /\ pc = "idle"
    /\ last' = [op |-> "useVariables", context |-> context, scheme |-> scheme,
                result |-> useVariables(context, scheme)]
    /\ UNCHANGED <<scopeVars, tagVars, subVars, loopVars, warned, env,
                   production, gone>>

----------------------------------------------------------------------------
(* Specifications.  Each draws the arguments of the same operations from   *)
(* its own input sets.                                                     *)

ResetConfigs ==
    {EmptyObject, [dimensions |-> "dimensions-stub", appearance |-> "appearance-stub"]}

\* the variable scopes: register with every combination of variable fields
NextVars ==
    \/ \E options \in VariableOptions : Register(options)
    \/ Reset(EmptyObject)

\* a development build: process.env.NODE_ENV is not "production"
InitDev == Init /\ ~production

SpecVars == InitDev /\ [][NextVars]_vars


\* reading the scopes: register is given one of two scopes for each variable
\* field it supplies, and components read with and without an inherited scope
ScopeA3C3 == [k \in {"a", "c"} |-> 3]

ReadOptions == UNION {[F -> {ScopeA1, ScopeA2B1}] : F \in SUBSET VariableFields}

Contexts == {<<"null">>, <<"provided", EmptyObject>>, <<"provided", ScopeA3C3>>}

Schemes == {"light", "dark", "unknown"}

NextRead ==
    \/ \E options \in ReadOptions : Register(options)
    \/ \E context \in Contexts, scheme \in Schemes : UseVariables(context, scheme)
    \/ Reset(EmptyObject)

SpecRead == InitDev /\ [][NextRead]_vars


\* the whole interface, with subscribers: register and create are given a few
\* representative arguments, callbacks subscribe and unsubscribe as they run
FullOptions ==
    [keyframes            |-> << <<"spin", SpinKeyframes>> >>,
     declarations         |-> << <<"n1", Descriptor(1, Spread(Spinning, Warned))>>,
                                 <<"n2", <<"array", <<Descriptor(2, Dynamic)>> >> >> >>,
     defaultVariables     |-> ScopeA1,
     defaultDarkVariables |-> ScopeA2B1,
     rootVariables        |-> ScopeA2B1,
     rootDarkVariables    |-> ScopeA1]

BusOptions == {EmptyObject, FullOptions}

BusStyles == {<<>>, << <<"n1", Descriptor(1, Spread(WithVars, Warned))>> >>}

Next ==
    \/ \E cb \in Callbacks : Subscribe(cb)
    \/ \E h \in DOMAIN handles : Unsubscribe(h)
    \/ \E options \in BusOptions : Register(options)
    \/ \E styles \in BusStyles : Create(styles)
    \/ \E config \in ResetConfigs : Reset(config)
    \/ \E effect \in Effects : Invoke(effect)

Spec == InitDev /\ [][Next]_vars


\* the tagger: register and create are given one named entry, a descriptor or
\* an array of up to two elements, each a descriptor or an array of one
SingleInputs ==
    {Descriptor(1, Static), Descriptor(1, Dynamic), Descriptor(1, NoMedia),
     Descriptor(2, WithVars)}

ElementInputs ==
    {Descriptor(1, Static), Descriptor(2, Dynamic),
     <<"array", <<Descriptor(1, Dynamic)>> >>}

ArrayInputs ==
    {<<"array", <<>> >>}
    \cup {<<"array", <<e>> >> : e \in ElementInputs}
    \cup {<<"array", <<e, f>> >> : e \in ElementInputs, f \in ElementInputs}

TagInputs == SingleInputs \cup ArrayInputs

NextTag ==
    \/ \E styles \in TagInputs : Register([declarations |-> << <<"n1", styles>> >>])
    \/ \E styles \in TagInputs : Create(<< <<"n1", styles>> >>)
    \/ Reset(EmptyObject)

SpecTag == InitDev /\ [][NextTag]_vars


\* the metadata record: register is given keyframes, one declaration with a
\* single descriptor, or both; create is given one descriptor
MetaExtras ==
    {Static, Dynamic, WithVars, NoMedia, WithMedia, Hovered, Spinning,
     NoneAnimation, Fading, FadingSpinning, Unnamed, Contained, ContainedInline,
     Queried, Moving, NeedsLayout, NoLayout, Propped,
     Spread(Dynamic, WithVars), Spread(Spinning, NoLayout),
     Spread(Spread(Dynamic, NoMedia), Spread(Contained, Spinning))}

KeyframeInputs ==
    {<< <<"spin", SpinKeyframes>> >>, << <<"spin", FlatKeyframes>> >>,
     << <<"none", SpinKeyframes>> >>}

MetaOptions ==
    {[keyframes |-> k] : k \in KeyframeInputs}
    \cup {[declarations |-> << <<"n1", Descriptor(1, e)>> >>] : e \in MetaExtras}
    \cup {[keyframes |-> k, declarations |-> << <<"n1", Descriptor(1, e)>> >>] :
             k \in KeyframeInputs, e \in MetaExtras}

NextMeta ==
    \/ \E options \in MetaOptions : Register(options)
    \/ \E e \in MetaExtras : Create(<< <<"n1", Descriptor(1, e)>> >>)
    \/ Reset(EmptyObject)

SpecMeta == InitDev /\ [][NextMeta]_vars


\* names: register and create are given one or two named entries; two of the
\* descriptors differ only in the style object they carry, two others share
\* theirs
NamedSingles ==
    {Descriptor(1, Spread(WithVars, Warned)), Descriptor(2, Spread(WithVars, Warned)),
     Descriptor(1, Spread(Hovered, Warned2)), Descriptor(2, Static)}

NamedArrays ==
    {<<"array", <<Descriptor(1, Spread(WithVars, Warned)), Descriptor(2, Static)>> >>}

NamedStyles ==
    {<< <<name, styles>> >> : name \in {"n1", "n2"}, styles \in NamedSingles}
    \cup {<< <<"n1", styles>> >> : styles \in NamedArrays}
    \cup {<< <<"n1", x>>, <<"n2", y>> >> :
             x \in NamedSingles \ {Descriptor(2, Static)},
             y \in NamedSingles \ {Descriptor(2, Static)}}

SceneOptions ==
    [keyframes            |-> << <<"spin", SpinKeyframes>> >>,
     defaultVariables     |-> ScopeA1,
     defaultDarkVariables |-> ScopeA2B1,
     rootVariables        |-> ScopeA2B1,
     rootDarkVariables    |-> ScopeA1]

NextNames ==
    \/ \E styles \in NamedStyles : Register([declarations |-> styles])
    \/ Register(SceneOptions)
    \/ \E styles \in NamedStyles : Create(styles)
    \/ Reset(EmptyObject)

SpecNames == InitDev /\ [][NextNames]_vars


\* warnings: a development or a production build; register and create are
\* given entries whose descriptors carry one of two warnings or none
WarnSingles ==
    {Descriptor(1, Warned), Descriptor(1, Warned2), Descriptor(1, Static)}

WarnArrays ==
    {<<"array", <<Descriptor(1, Warned), Descriptor(1, Warned2)>> >>,
     <<"array", <<Descriptor(1, Warned2), Descriptor(1, Static)>> >>,
     <<"array", << <<"array", <<Descriptor(1, Warned)>> >>, Descriptor(1, Static)>> >>}

WarnStyles ==
    {<< <<name, styles>> >> : name \in {"n1", "n2"}, styles \in WarnSingles \cup WarnArrays}
    \cup {<< <<"n1", Descriptor(1, Warned)>>, <<"n2", Descriptor(1, Warned2)>> >>}

NextWarn ==
    \/ \E styles \in WarnStyles : Register([declarations |-> styles])
    \/ \E styles \in WarnStyles : Create(styles)
    \/ Reset(EmptyObject)

SpecWarn == Init /\ [][NextWarn]_vars

----------------------------------------------------------------------------
(* The variable scopes after register (SpecVars) and reset (Spec).         *)

\* the last step was a register call that supplied field f
Supplied(f) == last.op = "register" /\ f \in DOMAIN last.options

\* scope holds exactly the keys of the layers, each with the value of the
\* last layer that has it
IsLayered(scope, layers) ==
    /\ DOMAIN scope = UNION {DOMAIN layers[i] : i \in DOMAIN layers}
    /\ \A k \in DOMAIN scope :
          \E i \in DOMAIN layers :
             /\ k \in DOMAIN layers[i]
             /\ scope[k] = layers[i][k]
             /\ \A j \in DOMAIN layers : j > i => k \notin DOMAIN layers[j]

\* the value a call gave for field f, and no keys when it gave none
Given(f) == IF f \in DOMAIN last.options THEN last.options[f] ELSE EmptyObject

\* C1: after a register call that supplies defaultDarkVariables, the
\* default-dark scope is the call's defaultVariables field (nothing when the
\* field is absent) overlaid with its defaultDarkVariables field, the dark
\* value winning on a shared key; nothing else is in it.
C1_DefaultDark ==
    Supplied("defaultDarkVariables") =>
        IsLayered(defaultDarkVariables,
                  <<Given("defaultVariables"), Given("defaultDarkVariables")>>)

\* a call whose two default fields disagree on a key, over an earlier scope
C1_Witness ==
    /\ Supplied("defaultDarkVariables")
    /\ Supplied("defaultVariables")
    /\ \E k \in DOMAIN Given("defaultVariables") \cap DOMAIN Given("defaultDarkVariables") :
          Given("defaultVariables")[k] # Given("defaultDarkVariables")[k]

\* C2: after a register call that supplies rootVariables, the root-light
\* scope is the call's rootVariables field overlaid with the default-light
\* scope as the call leaves it, the default-light value winning on a shared
\* key; nothing of the earlier root-light scope is kept.
C2_RootLight ==
    Supplied("rootVariables") =>
        IsLayered(rootVariables, <<Given("rootVariables"), defaultVariables>>)

\* the incoming root value and the default-light value disagree on a key
C2_Witness ==
    /\ Supplied("rootVariables")
    /\ ~Supplied("defaultVariables")
    /\ \E k \in DOMAIN Given("rootVariables") \cap DOMAIN defaultVariables :
          Given("rootVariables")[k] # defaultVariables[k]

\* C3: after a register call that supplies rootDarkVariables, the root-dark
\* scope is the call's rootVariables field (nothing when absent), overlaid
\* with its rootDarkVariables field, overlaid with the default-dark scope as
\* the call leaves it; nothing of the earlier root scopes is kept.
C3_RootDark ==
    Supplied("rootDarkVariables") =>
        IsLayered(rootDarkVariables,
                  <<Given("rootVariables"), Given("rootDarkVariables"),
                    defaultDarkVariables>>)

\* one key that only the call's rootVariables field brings into root-dark,
\* and one on which default-dark overrides that field
C3_Witness ==
    /\ Supplied("rootDarkVariables")
    /\ Supplied("rootVariables")
    /\ \E k \in DOMAIN Given("rootVariables") :
          /\ k \notin DOMAIN Given("rootDarkVariables")
          /\ k \notin DOMAIN defaultDarkVariables
    /\ \E k \in DOMAIN Given("rootVariables") \cap DOMAIN defaultDarkVariables :
          Given("rootVariables")[k] # defaultDarkVariables[k]

\* C4: right after reset the named-style map, the animation map, the
\* warnings registry with its de-duplication set, and the four variable
\* scopes are all empty, whatever was registered before.
C4_ResetEmpties ==
    last.op = "reset" =>
        /\ DOMAIN globalStyles = {}
        /\ DOMAIN animationMap = {}
        /\ DOMAIN warnings = {}
        /\ warned = {}
        /\ DOMAIN rootVariables = {}
        /\ DOMAIN rootDarkVariables = {}
        /\ DOMAIN defaultVariables = {}
        /\ DOMAIN defaultDarkVariables = {}

\* a reset after a register call that had filled every registry (the array
\* and the metadata of that call are still there to show it)
C4_Witness ==
    /\ last.op = "reset"
    /\ Len(arrays) > 0
    /\ StyleRef(1) \in DOMAIN styleMetaMap

----------------------------------------------------------------------------
(* The subscription set and the broadcast (Spec).                          *)

\* the last step called an unsubscribe closure, from outside a broadcast or
\* from a running callback
JustUnsubscribed ==
    \/ last.op = "unsubscribe"
    \/ (last.op = "invoke" /\ last.kind = "unsubscribe")

\* what a register call installs is in the registries
RegistriesUpdated ==
    /\ last.op = "register" =>
          /\ Supplied("defaultVariables") => defaultVariables = Given("defaultVariables")
          /\ Supplied("defaultDarkVariables") =>
                IsLayered(defaultDarkVariables,
                          <<Given("defaultVariables"), Given("defaultDarkVariables")>>)
          /\ Supplied("rootVariables") =>
                IsLayered(rootVariables, <<Given("rootVariables"), defaultVariables>>)
          /\ Supplied("rootDarkVariables") =>
                IsLayered(rootDarkVariables,
                          <<Given("rootVariables"), Given("rootDarkVariables"),
                            defaultDarkVariables>>)
          /\ Supplied("keyframes") =>
                \A i \in DOMAIN last.options["keyframes"] :
                   LET e == last.options["keyframes"][i]
                   IN  e[1] \in DOMAIN animationMap /\ animationMap[e[1]] = e[2]
          /\ Supplied("declarations") =>
                \A i \in DOMAIN last.options["declarations"] :
                   last.options["declarations"][i][1] \in DOMAIN globalStyles
    /\ last.op = "create" =>
          \A i \in DOMAIN last.styles :
             LET e == last.styles[i]
             IN  (~IsArray(e[2]) /\ HasMeta(e[2][2])) =>
                    e[2][2]["style"] \in DOMAIN styleMetaMap

\* the state part of C5: the updates are in place before the first callback,
\* the iterator stands on a member, and the counts at the end of the call
C5_BroadcastState ==
    /\ last.op \in {"register", "create"} =>
          /\ RegistriesUpdated
          /\ \A cb \in Callbacks : invoked[cb] = 0
          /\ bcStart = Members(subscriptions)
          /\ pc = "broadcast" <=> bcStart # {}
    /\ pc = "broadcast" => subscriptions[cursor] \in Callbacks
    /\ pc = "idle" => \A cb \in bcStart \ bcRemoved : invoked[cb] = 1

C6_NotInvokedOnceGone ==
    [][last'.op = "invoke" => last'.cb \notin gone]_vars

\* a broadcast has ended in which a callback subscribed at its start was
\* unsubscribed by another callback and never ran
C6_Witness ==
    /\ pc = "idle"
    /\ last.op = "invoke"
    /\ \E cb \in bcStart \cap gone : invoked[cb] = 0

\* C7 as amended: calling an unsubscribe closure again changes nothing as
\* long as its callback has not been subscribed again since it was last
\* unsubscribed.
C7_SecondCallNoOp ==
    [][(JustUnsubscribed' /\ last'.again /\ last'.target \in gone)
          => Members(subscriptions') = Members(subscriptions)]_vars

\* a second call of a closure while another callback is subscribed
C7_Witness ==
    /\ JustUnsubscribed
    /\ last.again
    /\ Members(subscriptions) = last.before
    /\ Members(subscriptions) # {}

\* C7 as stated: the second call of an unsubscribe closure leaves the set of
\* subscribers unchanged, whatever was subscribed in between.
C7_Original ==
    (JustUnsubscribed /\ last.again) => Members(subscriptions) = last.before

\* C8 as amended: calling an unsubscribe closure removes its own callback and
\* no other, so a subscription made with a different callback stays active;
\* subscriptions made with the same callback are one entry of the set.
C8_OthersStay ==
    /\ JustUnsubscribed => Members(subscriptions) = last.before \ {last.target}
    /\ \A h \in DOMAIN handles :
          (/\ ~handles[h].used
           /\ \A g \in DOMAIN handles : handles[g].used => handles[g].cb # handles[h].cb)
          => handles[h].cb \in Members(subscriptions)

\* one closure has been called and the subscription of the other callback,
\* made earlier, is still in the set
C8_Witness ==
    /\ JustUnsubscribed
    /\ last.target \in last.before
    /\ \E h \in DOMAIN handles :
          /\ h < last.handle
          /\ ~handles[h].used
          /\ handles[h].cb # last.target
          /\ handles[h].cb \in Members(subscriptions)

\* C8 as stated: after an unsubscribe closure is called, every other
\* subscription whose own closure has not been called is still active, also
\* when it was made with the same callback.
C8_Original ==
    JustUnsubscribed =>
        \A h \in DOMAIN handles :
           (h # last.handle /\ ~handles[h].used) => handles[h].cb \in Members(subscriptions)

----------------------------------------------------------------------------
(* The metadata side table after tagging (SpecTag).                        *)

\* the last step was a register or create call that tagged something
JustTagged == last.op \in {"register", "create"}

\* the <<name, styles>> entries the last call tagged
TaggedEntries ==
    IF last.op = "create" THEN last.styles
    ELSE IF "declarations" \in DOMAIN last.options THEN last.options["declarations"]
    ELSE <<>>

\* what tagStyles returned for the entry called name
TaggedValue(name) ==
    IF last.op = "create" THEN last.namedStyles[name] ELSE globalStyles[name]

DynamicFields ==
    {"isDynamic", "variables", "pseudoClasses", "animations", "container",
     "containerQuery", "transition", "requiresLayout", "prop"}

\* no dynamic field is set, and media is absent or empty
IsStatic(d) ==
    /\ DOMAIN d \cap DynamicFields = {}
    /\ "media" \in DOMAIN d => d["media"] = <<>>

RECURSIVE Leaves(_)
\* the descriptors in a tagStyles argument, at any depth
Leaves(styles) ==
    IF IsArray(styles)
    THEN UNION {Leaves(styles[2][i]) : i \in DOMAIN styles[2]}
    ELSE {styles[2]}

TaggedLeaves == UNION {Leaves(TaggedEntries[i][2]) : i \in DOMAIN TaggedEntries}

\* C9 as amended: tagging a static descriptor installs and changes no
\* metadata entry: a style value that a call tags only through static
\* descriptors has the entry it had before the call, if any, and none
\* otherwise.
C9_StaticAddsNothing ==
    [][JustTagged' =>
         \A d \in TaggedLeaves' :
            (\A e \in TaggedLeaves' : e["style"] = d["style"] => IsStatic(e)) =>
               /\ d["style"] \in DOMAIN styleMetaMap' <=> d["style"] \in DOMAIN styleMetaMap
               /\ d["style"] \in DOMAIN styleMetaMap =>
                     styleMetaMap'[d["style"]] = styleMetaMap[d["style"]]]_vars

\* a static descriptor has just been tagged, its style value has no entry,
\* and the table holds entries of earlier taggings
C9_Witness ==
    /\ last.op = "create"
    /\ ~IsArray(last.styles[1][2])
    /\ IsStatic(last.styles[1][2][2])
    /\ TaggedValue(last.styles[1][1]) \notin DOMAIN styleMetaMap
    /\ DOMAIN styleMetaMap # {}

\* C9 as stated: after a static descriptor is tagged, the style value
\* returned for it has no entry in the metadata table, whatever was tagged
\* before.
C9_Original ==
    JustTagged =>
        \A i \in DOMAIN TaggedEntries :
           (~IsArray(TaggedEntries[i][2]) /\ IsStatic(TaggedEntries[i][2][2])) =>
              TaggedValue(TaggedEntries[i][1]) \notin DOMAIN styleMetaMap

RECURSIVE ReceivedMetadata(_)
\* tagging this element installs an entry for the value it returns: a
\* descriptor with a dynamic field, or an array one of whose elements does
ReceivedMetadata(s) ==
    IF IsArray(s)
    THEN \E i \in DOMAIN s[2] : ReceivedMetadata(s[2][i])
    ELSE HasMeta(s[2])

\* C10: the array returned for a tagged style array has a metadata entry
\* exactly when tagging one of its elements installed an entry, and the
\* entry has no fields.
C10_ArraySentinel ==
    JustTagged =>
        \A i \in DOMAIN TaggedEntries :
           IsArray(TaggedEntries[i][2]) =>
              LET value == TaggedValue(TaggedEntries[i][1])
                  items == TaggedEntries[i][2][2]
              IN  /\ value \in DOMAIN styleMetaMap
                        <=> \E j \in DOMAIN items : ReceivedMetadata(items[j])
                  /\ value \in DOMAIN styleMetaMap => DOMAIN styleMetaMap[value] = {}

----------------------------------------------------------------------------
(* The metadata record of a single descriptor (SpecMeta).                  *)

\* the dynamic fields a descriptor has set: a flag counts when it is true,
\* media when it is not empty
FieldsSet(d) ==
    {f \in DOMAIN d \cap (DynamicFields \cup {"media"}) :
        /\ f \in {"isDynamic", "requiresLayout"} => d[f] = TRUE
        /\ f = "media" => d[f] # <<>>}

\* the name an animation reference stands for
ReferencedName(ref) == IF ref["type"] = "none" THEN "none" ELSE ref["value"]

\* the animation names a descriptor refers to
ReferencedNames(d) ==
    IF "animations" \in DOMAIN d /\ "name" \in DOMAIN d["animations"]
    THEN {ReferencedName(d["animations"]["name"][i]) :
             i \in DOMAIN d["animations"]["name"]}
    ELSE {}

\* some animation the descriptor refers to is registered as requiring layout
LayoutByAnimation(d) ==
    \E name \in ReferencedNames(d) \cap DOMAIN animationMap :
       /\ "requiresLayout" \in DOMAIN animationMap[name]
       /\ animationMap[name]["requiresLayout"] = TRUE

\* the single descriptors the last call tagged directly under a name
TaggedSingles ==
    {TaggedEntries[i][2][2] :
        i \in {j \in DOMAIN TaggedEntries : ~IsArray(TaggedEntries[j][2])}}

\* the fields a metadata record has for descriptor d: those d has set, apart
\* from isDynamic, and requiresLayout when an animation asks for it
RecordFields(d) ==
    (FieldsSet(d) \ {"isDynamic"})
    \cup (IF LayoutByAnimation(d) THEN {"requiresLayout"} ELSE {})

\* meta carries the fields of d it has as d gives them, the container with
\* its type defaulted to "normal"
CarriesValuesOf(meta, d) ==
    /\ \A f \in DOMAIN meta \ {"container", "requiresLayout"} : meta[f] = d[f]
    /\ "requiresLayout" \in DOMAIN meta => meta["requiresLayout"] = TRUE
    /\ "container" \in DOMAIN meta =>
          /\ DOMAIN meta["container"] = {"names", "type"}
          /\ meta["container"]["names"] = d["container"]["names"]
          /\ meta["container"]["type"] =
                IF "type" \in DOMAIN d["container"]
                THEN d["container"]["type"] ELSE "normal"

LayoutKeyframesGiven ==
    IF last.op = "register" /\ "keyframes" \in DOMAIN last.options
    THEN {last.options["keyframes"][i][1] :
             i \in {j \in DOMAIN last.options["keyframes"] :
                       Flag(last.options["keyframes"][j][2], "requiresLayout")}}
    ELSE {}

\* C12: after a descriptor with animations is tagged, its entry has
\* requiresLayout = true if a referenced animation name (a reference of type
\* "none" standing for the name "none") is mapped in the animation map to a
\* definition that requires layout; a descriptor whose references are all
\* unknown or need no layout, and which does not set requiresLayout itself,
\* gets an entry with its animations and no requiresLayout; keyframes given
\* in the same register call as the declaration count.
C12_AnimationLayout ==
    JustTagged =>
        \A d \in TaggedSingles :
           "animations" \in DOMAIN d =>
              /\ d["style"] \in DOMAIN styleMetaMap
              /\ styleMetaMap[d["style"]]["animations"] = d["animations"]
              /\ LayoutByAnimation(d) =>
                    /\ "requiresLayout" \in DOMAIN styleMetaMap[d["style"]]
                    /\ styleMetaMap[d["style"]]["requiresLayout"] = TRUE
              /\ (~LayoutByAnimation(d) /\ ~Flag(d, "requiresLayout")) =>
                    "requiresLayout" \notin DOMAIN styleMetaMap[d["style"]]
              /\ ReferencedNames(d) \cap LayoutKeyframesGiven # {} =>
                    /\ "requiresLayout" \in DOMAIN styleMetaMap[d["style"]]
                    /\ styleMetaMap[d["style"]]["requiresLayout"] = TRUE

\* one register call gave the keyframes "spin", requiring layout, and a
\* declaration that refers to "spin" after a name that is not registered
C12_Witness ==
    /\ last.op = "register"
    /\ "spin" \in LayoutKeyframesGiven
    /\ \E d \in TaggedSingles :
          /\ {"fade", "spin"} \subseteq ReferencedNames(d)
          /\ "fade" \notin DOMAIN animationMap
          /\ styleMetaMap[d["style"]]["requiresLayout"] = TRUE

----------------------------------------------------------------------------
(* Reading the variable scopes (SpecRead).                                 *)

JustRead == last.op = "useVariables"

\* the default scope a read under this scheme uses
DefaultScopeFor(scheme) ==
    IF scheme = "light" THEN defaultVariables ELSE defaultDarkVariables

\* what a read has returned is what the scopes as they are now call for
ReadMatchesReference ==
    JustRead =>
        IF last.context[1] = "null"
        THEN last.result = IF last.scheme = "light"
                           THEN rootVariables ELSE rootDarkVariables
        ELSE IsLayered(last.result, <<last.context[2], DefaultScopeFor(last.scheme)>>)

\* C13: a read with no inherited scope returns the root-light scope when
\* the appearance is light and the root-dark scope otherwise; a read with an
\* inherited scope returns the inherited scope overlaid with the default
\* scope of the appearance, the default winning on a shared key.  A read
\* changes no registry and no scope, and a read repeated with nothing in
\* between returns the same result.
C13_Resolution ==
    /\ []ReadMatchesReference
    /\ [][JustRead' => UNCHANGED <<scopeVars, tagVars, subVars, warned, env>>]_vars
    /\ [][(/\ JustRead /\ JustRead'
           /\ last'.context = last.context
           /\ last'.scheme = last.scheme) => last'.result = last.result]_vars

\* a dark read whose inherited scope disagrees with the default-dark scope on
\* one key and adds another, the default-light scope being different
C13_Witness ==
    /\ JustRead
    /\ last.scheme # "light"
    /\ last.context[1] = "provided"
    /\ \E k \in DOMAIN last.context[2] \cap DOMAIN defaultDarkVariables :
          /\ last.context[2][k] # defaultDarkVariables[k]
          /\ last.result[k] = defaultDarkVariables[k]
    /\ DOMAIN last.context[2] \ DOMAIN defaultDarkVariables # {}
    /\ defaultVariables # defaultDarkVariables
    /\ rootVariables # rootDarkVariables

----------------------------------------------------------------------------
(* What create writes and returns (SpecNames).                             *)

\* the names of a sequence of <<name, styles>> entries
NamesOf(entries) == {entries[i][1] : i \in DOMAIN entries}

RECURSIVE IsTaggedValue(_, _, _)
\* value is what tagging styles gives: the style object of a descriptor, or
\* an array on the heap holding what tagging each element gives
IsTaggedValue(value, styles, heap) ==
    IF IsArray(styles)
    THEN /\ value[1] = "array"
         /\ value[2] \in DOMAIN heap
         /\ Len(heap[value[2]]) = Len(styles[2])
         /\ \A j \in DOMAIN styles[2] :
               IsTaggedValue(heap[value[2]][j], styles[2][j], heap)
    ELSE value = styles[2]["style"]

\* C14: a create call leaves the named-style map, the animation map and the
\* four variable scopes as they were, and writes no registry other than the
\* metadata table and the warnings registry; what it returns has exactly
\* the names it was given, each mapped to the tagged value of its entry.
C14_CreateFrame ==
    [][last'.op = "create" =>
         /\ UNCHANGED <<globalStyles, animationMap, scopeVars, warned, env>>
         /\ DOMAIN last'.namedStyles = NamesOf(last'.styles)
         /\ \A i \in DOMAIN last'.styles :
               IsTaggedValue(last'.namedStyles[last'.styles[i][1]],
                             last'.styles[i][2], arrays')]_vars

\* create has returned two names while the named-style map holds one other
\* entry only, and keyframes and variables are registered
C14_Witness ==
    /\ last.op = "create"
    /\ DOMAIN last.namedStyles = {"n1", "n2"}
    /\ DOMAIN globalStyles = {"n2"}
    /\ globalStyles["n2"] # last.namedStyles["n2"]
    /\ DOMAIN animationMap # {}
    /\ DOMAIN rootVariables # {}
    /\ DOMAIN defaultDarkVariables # {}
    /\ DOMAIN styleMetaMap # {}
    /\ DOMAIN warnings # {}

----------------------------------------------------------------------------
(* Metadata is keyed by the style object (SpecNames).                      *)

\* the style objects of the descriptors the last call tagged
TaggedStyleObjects == {d["style"] : d \in TaggedLeaves}

\* a call that tags one descriptor under two names gets one value for both
SameDescriptorSameValue ==
    JustTagged =>
        \A i, j \in DOMAIN TaggedEntries :
           (~IsArray(TaggedEntries[i][2]) /\ TaggedEntries[i][2] = TaggedEntries[j][2]) =>
              /\ TaggedValue(TaggedEntries[i][1]) = TaggedEntries[i][2][2]["style"]
              /\ TaggedValue(TaggedEntries[j][1]) = TaggedValue(TaggedEntries[i][1])

\* C15 as amended: metadata is keyed by the identity of the style object a
\* descriptor carries, which tagging returns unchanged.  A tagging changes
\* or replaces only the entries of the style objects it tags itself: the
\* entry of every other style object, structurally identical or not, stays
\* as it was.  Tagging one descriptor under two names returns the same
\* style object for both, with the one entry they share.
C15_OwnEntries ==
    /\ []SameDescriptorSameValue
    /\ [][JustTagged' =>
            \A key \in DOMAIN styleMetaMap \ TaggedStyleObjects' :
               /\ key \in DOMAIN styleMetaMap'
               /\ styleMetaMap'[key] = styleMetaMap[key]]_vars

\* one descriptor has been tagged under two names, and another style object
\* tagged earlier from a structurally identical descriptor has its entry
C15_Witness ==
    /\ JustTagged
    /\ Len(TaggedEntries) = 2
    /\ TaggedEntries[1][2] = TaggedEntries[2][2]
    /\ TaggedValue("n1") = TaggedValue("n2")
    /\ \E key \in DOMAIN styleMetaMap :
          /\ key # TaggedValue("n1")
          /\ styleMetaMap[key] = styleMetaMap[TaggedValue("n1")]

\* the values a call returns for two names are different objects
OwnValuePerName ==
    JustTagged =>
        \A i, j \in DOMAIN TaggedEntries :
           i # j => TaggedValue(TaggedEntries[i][1]) # TaggedValue(TaggedEntries[j][1])

\* C15 as stated: every tagging yields a value with an entry of its own, also
\* when one descriptor is tagged under two names, and a later tagging never
\* changes or replaces the entry of a value produced by an earlier tagging.
C15_Original ==
    /\ []OwnValuePerName
    /\ [][JustTagged' =>
            \A key \in DOMAIN styleMetaMap :
               /\ key \in DOMAIN styleMetaMap'
               /\ styleMetaMap'[key] = styleMetaMap[key]]_vars

----------------------------------------------------------------------------
(* When a variable scope changes (SpecVars).                               *)

\* the keys a call gives in field f
KeysGiven(options, f) == IF f \in DOMAIN options THEN DOMAIN options[f] ELSE {}

\* a register call leaves the scope of every field it does not supply
ScopesKeptByRegister ==
    last'.op = "register" =>
        /\ "defaultVariables" \notin DOMAIN last'.options
              => defaultVariables' = defaultVariables
        /\ "defaultDarkVariables" \notin DOMAIN last'.options
              => defaultDarkVariables' = defaultDarkVariables
        /\ "rootVariables" \notin DOMAIN last'.options
              => rootVariables' = rootVariables
        /\ "rootDarkVariables" \notin DOMAIN last'.options
              => rootDarkVariables' = rootDarkVariables

\* a scope the call supplies is made of what the call gives and of the
\* default scope as the call leaves it; no other key of the old scope stays
ScopesReplacedByRegister ==
    last'.op = "register" =>
        /\ "defaultVariables" \in DOMAIN last'.options
              => defaultVariables' = last'.options["defaultVariables"]
        /\ "defaultDarkVariables" \in DOMAIN last'.options
              => DOMAIN defaultDarkVariables' =
                    KeysGiven(last'.options, "defaultVariables")
                    \cup KeysGiven(last'.options, "defaultDarkVariables")
        /\ "rootVariables" \in DOMAIN last'.options
              => DOMAIN rootVariables' =
                    KeysGiven(last'.options, "rootVariables")
                    \cup DOMAIN defaultVariables'
        /\ "rootDarkVariables" \in DOMAIN last'.options
              => DOMAIN rootDarkVariables' =
                    KeysGiven(last'.options, "rootVariables")
                    \cup KeysGiven(last'.options, "rootDarkVariables")
                    \cup DOMAIN defaultDarkVariables'

\* a scope changes only in a reset or in a register call supplying its field
ScopesChangedOnlyBy ==
    /\ defaultVariables' # defaultVariables
          => \/ last'.op = "reset"
             \/ last'.op = "register" /\ "defaultVariables" \in DOMAIN last'.options
    /\ defaultDarkVariables' # defaultDarkVariables
          => \/ last'.op = "reset"
             \/ last'.op = "register" /\ "defaultDarkVariables" \in DOMAIN last'.options
    /\ rootVariables' # rootVariables
          => \/ last'.op = "reset"
             \/ last'.op = "register" /\ "rootVariables" \in DOMAIN last'.options
    /\ rootDarkVariables' # rootDarkVariables
          => \/ last'.op = "reset"
             \/ last'.op = "register" /\ "rootDarkVariables" \in DOMAIN last'.options

\* C16: each of the four variable scopes changes only in a register call
\* that supplies its own field, or in a reset: a call without a field leaves
\* that field's scope as it was, so a root scope computed by an earlier call
\* is not altered when a later call changes a default scope; a scope that is
\* replaced keeps no key of its previous content unless the call gives the
\* key or the default scope laid over it has it.
C16_ScopeFrame ==
    [][ScopesKeptByRegister /\ ScopesReplacedByRegister /\ ScopesChangedOnlyBy]_vars

\* a call has replaced the default-light scope and supplied no rootVariables:
\* the root-light scope still has the value an earlier default gave a key
C16_Witness ==
    /\ last.op = "register"
    /\ "defaultVariables" \in DOMAIN last.options
    /\ "rootVariables" \notin DOMAIN last.options
    /\ \E k \in DOMAIN rootVariables \cap DOMAIN defaultVariables :
          rootVariables[k] # defaultVariables[k]
    /\ DOMAIN rootVariables \ DOMAIN defaultVariables # {}

----------------------------------------------------------------------------
(* The metadata side table after reset (SpecTag).                          *)

\* C17: after a reset every registry is empty, the metadata side table
\* included: no style value tagged before the reset still has an entry.
C17_ResetClearsMetadata ==
    last.op = "reset" =>
        /\ DOMAIN globalStyles = {}
        /\ DOMAIN animationMap = {}
        /\ DOMAIN warnings = {}
        /\ DOMAIN styleMetaMap = {}

----------------------------------------------------------------------------
(* The warnings registry (SpecWarn).                                       *)

RECURSIVE WarningsIn(_)
\* the warnings the descriptors of a tagStyles argument carry, in the order
\* of the elements
WarningsIn(styles) ==
    IF IsArray(styles)
    THEN LET RECURSIVE From(_)
             From(i) == IF i > Len(styles[2]) THEN <<>>
                        ELSE WarningsIn(styles[2][i]) \o From(i + 1)
         IN  From(1)
    ELSE IF "warnings" \in DOMAIN styles[2] THEN <<styles[2]["warnings"]>> ELSE <<>>

\* the warnings the last call carried under name, in order
WarningsUnder(name) ==
    LET RECURSIVE From(_)
        From(i) == IF i > Len(TaggedEntries) THEN <<>>
                   ELSE (IF TaggedEntries[i][1] = name
                         THEN WarningsIn(TaggedEntries[i][2]) ELSE <<>>) \o From(i + 1)
    IN  From(1)

\* C18: in a build that is not a production build, a register or create
\* call leaves each name it tags with warnings mapped to the warnings of the
\* last descriptor carrying any under that name, whatever was stored
\* before, and leaves every other entry of the warnings registry as it was;
\* in a production build it leaves the whole registry as it was.
C18_Warnings ==
    [][JustTagged' =>
         IF production
         THEN warnings' = warnings
         ELSE \A name \in NamesOf(TaggedEntries') \cup DOMAIN warnings \cup DOMAIN warnings' :
                 IF WarningsUnder(name)' # <<>>
                 THEN /\ name \in DOMAIN warnings'
                      /\ warnings'[name] = WarningsUnder(name)'[Len(WarningsUnder(name)')]
                 ELSE /\ name \in DOMAIN warnings' <=> name \in DOMAIN warnings
                      /\ name \in DOMAIN warnings =>
                            warnings'[name] = warnings[name]]_vars

\* a development build has tagged an array whose elements carry two
\* different warnings; the registry has the later one under the name and
\* still has what an earlier call stored under the other name
C18_Witness ==
    /\ JustTagged
    /\ ~production
    /\ \E i \in DOMAIN TaggedEntries :
          LET name == TaggedEntries[i][1]
              given == WarningsUnder(name)
          IN  /\ IsArray(TaggedEntries[i][2])
              /\ Len(given) = 2
              /\ given[1] # given[2]
              /\ warnings[name] = given[2]
              /\ DOMAIN warnings \ {name} # {}

----------------------------------------------------------------------------
(* Callbacks that subscribe and unsubscribe while a broadcast runs (Spec). *)

\* the number of callback invocations of the broadcast so far
Invocations ==
    LET RECURSIVE Sum(_)
        Sum(S) == IF S = {} THEN 0
                  ELSE LET cb == CHOOSE c \in S : TRUE
                       IN  invoked[cb] + Sum(S \ {cb})
    IN  Sum(Callbacks)

\* the counts of a broadcast, while it runs and when it is over
C19_Counts ==
    /\ \A cb \in bcStart \ bcRemoved : invoked[cb] <= 1
    /\ pc = "broadcast" => Invocations < cursor
    /\ (pc = "idle" /\ last.op = "invoke") =>
          \A cb \in Members(subscriptions) : invoked[cb] >= 1

----------------------------------------------------------------------------
(* Subscribers across a reset (Spec).                                      *)

\* the counts at the end of a broadcast that followed a reset directly
C20_AfterReset ==
    (bcAfterReset /\ pc = "idle") =>
        \A cb \in bcStart \ bcRemoved : invoked[cb] = 1

====
